---- MODULE Spec2Model ----
(***************************************************************************)
(* Model of crates/anyflux/src/context.rs: the thread-local registry of    *)
(* store contexts (get_or_init) and the reduction of a store's snapshot    *)
(* (Context::reduce, Context::reduce_future), as run by the cooperative    *)
(* tasks of one thread.                                                    *)
(*                                                                         *)
(* The thread's synchronous execution is a call stack of frames; only the  *)
(* top frame runs.  A reduce_future that awaits leaves the stack and waits *)
(* in `suspended` until it is polled again.                                *)
(*                                                                         *)
(* CONTEXTS is thread_local: the registry, cells and tasks below are those *)
(* of the thread that is running, `parked` holds those of the other one.   *)
(***************************************************************************)
EXTENDS Integers, Sequences, FiniteSets, Bags, TLC

(* ---------------------------- bounds ----------------------------------- *)

\* Deepest nesting of get_or_init calls (get_or_init inside S::new()).
MaxDepth == 3
\* Snapshots are the values 0..MaxVal of the u32 held by the test stores.
MaxVal == 1
\* Most reduce_future calls suspended at the same time.
MaxSuspended == 1
\* Most failing store constructors in one behaviour.
MaxFail == 1

(* ------------------------- the store types ----------------------------- *)

\* The types S: Store that get_or_init is instantiated with.  "A" is
\* tests::TestState, "B" is tests::TestState2 (its new() requests A); "C" and
\* "D" are stores whose constructors may request each other.
Types == {"A", "B", "C", "D"}

\* The store types one program instantiates get_or_init with: the two test
\* stores, or two stores whose constructors may request each other.
Programs == {{"A", "B"}, {"C", "D"}}

\* The get_or_init::<Y>() calls the body of S::new() may make.
Requests(S) ==
    CASE S = "A" -> {}
      [] S = "B" -> {"A"}
      [] S = "C" -> {"D"}
      [] S = "D" -> {"C"}

\* The get_or_init::<Y>() calls S::new() makes on every path before it returns.
Always(S) == IF S = "B" THEN {"A"} ELSE {}

\* Store::new() of the test stores returns Self(0).
InitVal == 0

Vals == 0..MaxVal

\* Store::should_notify(&self, other).  The test stores use `self != other`;
\* "C" has an implementation that is not symmetric in its arguments.
ShouldNotify(S, self, other) ==
    IF S = "C" THEN self > other ELSE self # other

\* The transforms f: FnOnce(Rc<S>) -> Rc<S> given to reduce / reduce_future.
\* A transform computes its result from the snapshot it is given; while it runs
\* it may read the store again through another Context, and it does not reduce
\* the store it is reducing.
Transforms == {"id", "inc"}

Apply(f, v) ==
    CASE f = "id"   -> v
      [] f = "inc"  -> (v + 1) % (MaxVal + 1)

(* ------------------------------ state ---------------------------------- *)

VARIABLES
    thread,          \* the thread that is running, 1 or 2
    parked,          \* the registry, cells and tasks of the thread that is not running
    stores,          \* the store types of the program that runs
    contexts,        \* CONTEXTS: type -> Absent | None | the cell of Some(Context)
    contextsBorrow,  \* RefCell flag of the CONTEXTS map
    entryBorrow,     \* RefCell flag of each entry Mrc<Option<Context<S>>>
    cells,           \* type -> the store cells Mrc<Rc<S>> created so far, in order
    stack,           \* frames of the running synchronous call chain
    suspended,       \* bag of the reduce_future frames waiting at their .await
    handles,         \* cells of the Context<S> values get_or_init has returned
    newCount,        \* type -> number of times S::new() has been entered
    failed,          \* number of S::new() calls that failed
    panicked         \* "no", or the panic raised by this module's own code

vars == <<thread, parked, stores, contexts, contextsBorrow, entryBorrow, cells, stack, suspended,
          handles, newCount, failed, panicked>>

\* Entry states of type S: no entry in the map; entry present holding None;
\* k >= 1 means the entry holds Some(Context { store: cells[S][k] }).
Absent == -1
None == 0

\* RefCell borrow flags: 0 unborrowed, Writing mutably borrowed, n > 0 readers.
Unused == 0
Writing == -1
CanBorrow(flag) == flag >= 0
CanBorrowMut(flag) == flag = Unused

Frame(op, ty, cell, f) ==
    [op |-> op, ty |-> ty, pc |-> IF op = "get_or_init" THEN "with_mut" ELSE "old",
     cell |-> cell, f |-> f, old |-> 0, pre |-> 0, seen |-> 0,
     ret |-> FALSE, done |-> {}]

\* The cell a frame's Context (or a handle <<type, index>>) refers to.
CellOf(fr) == cells[fr.ty][fr.cell]
Handle(fr) == <<fr.ty, fr.cell>>

Depth == Len(stack)
Top == stack[Depth]
Running == panicked = "no" /\ Depth > 0
Idle == panicked = "no" /\ Depth = 0

SetTop(fr) == [stack EXCEPT ![Depth] = fr]
Pop == SubSeq(stack, 1, Depth - 1)
Push(fr) == Append(stack, fr)

Panic(why) ==
    /\ panicked' = why
    /\ UNCHANGED <<thread, parked, stores, contexts, contextsBorrow, entryBorrow, cells, stack,
                   suspended, handles, newCount, failed>>

\* What a thread has of its own: its instance of the thread_local CONTEXTS,
\* the cells reachable from it, and its call chain and tasks.
Local ==
    [contexts |-> contexts, contextsBorrow |-> contextsBorrow,
     entryBorrow |-> entryBorrow, cells |-> cells, stack |-> stack,
     suspended |-> suspended, handles |-> handles, newCount |-> newCount,
     panicked |-> panicked]

Init ==
    /\ thread = 1
    /\ parked = [contexts |-> [S \in Types |-> Absent], contextsBorrow |-> Unused,
                 entryBorrow |-> [S \in Types |-> Unused],
                 cells |-> [S \in Types |-> <<>>], stack |-> <<>>,
                 suspended |-> EmptyBag, handles |-> {},
                 newCount |-> [S \in Types |-> 0], panicked |-> "no"]
    /\ stores \in Programs
    /\ contexts = [S \in Types |-> Absent]
    /\ contextsBorrow = Unused
    /\ entryBorrow = [S \in Types |-> Unused]
    /\ cells = [S \in Types |-> <<>>]
    /\ stack = <<>>
    /\ suspended = EmptyBag
    /\ handles = {}
    /\ newCount = [S \in Types |-> 0]
    /\ failed = 0
    /\ panicked = "no"

(* --------------------------- get_or_init ------------------------------- *)

\* A task calls get_or_init::<S>().
CallGetOrInit(S) ==
    /\ Idle
    /\ S \in stores
    /\ stack' = Push(Frame("get_or_init", S, 0, "-"))
    /\ UNCHANGED <<thread, parked, stores, contexts, contextsBorrow, entryBorrow, cells, suspended,
                   handles, newCount, failed, panicked>>

\* contexts.with_mut(|x| ...): the map is mutably borrowed.
WithMut ==
    /\ Running /\ Top.op = "get_or_init" /\ Top.pc = "with_mut"
    /\ IF CanBorrowMut(contextsBorrow)
       THEN /\ contextsBorrow' = Writing
            /\ stack' = SetTop([Top EXCEPT !.pc = "entry"])
            /\ UNCHANGED <<thread, parked, stores, contexts, entryBorrow, cells, suspended, handles,
                           newCount, failed, panicked>>
       ELSE Panic("BorrowMutError")

\* Entry as it would be if the borrow of the map outlived the closure and were
\* still held while S::new() runs.
EntryKeepsBorrow ==
    /\ Running /\ Top.op = "get_or_init" /\ Top.pc = "entry"
    /\ contexts' = IF contexts[Top.ty] = Absent
                   THEN [contexts EXCEPT ![Top.ty] = None]
                   ELSE contexts
    /\ contextsBorrow' = Writing
    /\ stack' = SetTop([Top EXCEPT !.pc = "exists"])
    /\ UNCHANGED <<thread, parked, stores, entryBorrow, cells, suspended, handles, newCount,
                   failed, panicked>>

\* Entry as it would be if the closure only looked the entry up and the entry
\* were inserted into the map when the constructed store is stored.
EntryLooksUpOnly ==
    /\ Running /\ Top.op = "get_or_init" /\ Top.pc = "entry"
    /\ contextsBorrow' = Unused
    /\ stack' = SetTop([Top EXCEPT !.pc = "exists"])
    /\ UNCHANGED <<thread, parked, stores, contexts, entryBorrow, cells, suspended,
                   handles, newCount, failed, panicked>>

\* x.entry().or_insert_with(|| None.into()).clone(); the closure returns and
\* the borrow of the map ends.
Entry ==
    /\ Running /\ Top.op = "get_or_init" /\ Top.pc = "entry"
    /\ contexts' = IF contexts[Top.ty] = Absent
                   THEN [contexts EXCEPT ![Top.ty] = None]
                   ELSE contexts
    /\ contextsBorrow' = Unused
    /\ stack' = SetTop([Top EXCEPT !.pc = "exists"])
    /\ UNCHANGED <<thread, parked, stores, entryBorrow, cells, suspended, handles, newCount, failed,
                   panicked>>

\* Exists as it would be if the Ref of the entry taken for the is_some() check
\* were kept in a local and so stayed alive while S::new() runs.
ExistsKeepsRef ==
    /\ Running /\ Top.op = "get_or_init" /\ Top.pc = "exists"
    /\ IF CanBorrow(entryBorrow[Top.ty])
       THEN /\ IF contexts[Top.ty] > None
               THEN /\ stack' = SetTop([Top EXCEPT !.pc = "context"])
                    /\ UNCHANGED <<newCount, entryBorrow>>
               ELSE /\ stack' = SetTop([Top EXCEPT !.pc = "new"])
                    /\ newCount' = [newCount EXCEPT ![Top.ty] = @ + 1]
                    /\ entryBorrow' = [entryBorrow EXCEPT ![Top.ty] = @ + 1]
            /\ UNCHANGED <<thread, parked, stores, contexts, contextsBorrow, cells,
                           suspended, handles, failed, panicked>>
       ELSE Panic("BorrowError")

\* Exists as it would be if an entry that is present, pending or ready, counted
\* as existing.
ExistsPendingIsReady ==
    /\ Running /\ Top.op = "get_or_init" /\ Top.pc = "exists"
    /\ IF CanBorrow(entryBorrow[Top.ty])
       THEN /\ stack' = SetTop([Top EXCEPT !.pc = "context"])
            /\ UNCHANGED <<thread, parked, stores, contexts, contextsBorrow,
                           entryBorrow, cells, suspended, handles, newCount,
                           failed, panicked>>
       ELSE Panic("BorrowError")

\* let exists = maybe_context.borrow().is_some(); if !exists { S::new() ...
Exists ==
    /\ Running /\ Top.op = "get_or_init" /\ Top.pc = "exists"
    /\ IF CanBorrow(entryBorrow[Top.ty])
       THEN /\ IF contexts[Top.ty] > None
               THEN /\ stack' = SetTop([Top EXCEPT !.pc = "context"])
                    /\ UNCHANGED newCount
               ELSE /\ stack' = SetTop([Top EXCEPT !.pc = "new"])
                    /\ newCount' = [newCount EXCEPT ![Top.ty] = @ + 1]
            /\ UNCHANGED <<thread, parked, stores, contexts, contextsBorrow, entryBorrow, cells,
                           suspended, handles, failed, panicked>>
       ELSE Panic("BorrowError")

\* Inside S::new(): the constructor calls get_or_init::<Y>().
NewRequests(Y) ==
    /\ Running /\ Top.op = "get_or_init" /\ Top.pc = "new"
    /\ Y \in Requests(Top.ty) \ Top.done
    /\ Depth < MaxDepth
    /\ stack' = Append(SetTop([Top EXCEPT !.done = @ \cup {Y}]),
                       Frame("get_or_init", Y, 0, "-"))
    /\ UNCHANGED <<thread, parked, stores, contexts, contextsBorrow, entryBorrow, cells, suspended,
                   handles, newCount, failed, panicked>>

\* S::new() returns the initial state.
NewReturns ==
    /\ Running /\ Top.op = "get_or_init" /\ Top.pc = "new"
    /\ Always(Top.ty) \subseteq Top.done
    /\ stack' = SetTop([Top EXCEPT !.pc = "store"])
    /\ UNCHANGED <<thread, parked, stores, contexts, contextsBorrow, entryBorrow, cells, suspended,
                   handles, newCount, failed, panicked>>

\* S::new() fails: the panic unwinds every frame of the call chain, dropping
\* the borrows they hold, up to the task that made the outermost call.
NewFails ==
    /\ Running /\ Top.op = "get_or_init" /\ Top.pc = "new"
    /\ failed < MaxFail
    /\ failed' = failed + 1
    /\ stack' = <<>>
    /\ contextsBorrow' = Unused
    /\ entryBorrow' = [S \in Types |-> Unused]
    /\ cells' = [S \in Types |-> [k \in DOMAIN cells[S] |->
                                    [cells[S][k] EXCEPT !.flag = Unused]]]
    /\ UNCHANGED <<thread, parked, stores, contexts, suspended, handles, newCount, panicked>>

\* Store as it would be if the Context were built and the entry left as it is.
StoreKeepsPending ==
    /\ Running /\ Top.op = "get_or_init" /\ Top.pc = "store"
    /\ IF CanBorrowMut(entryBorrow[Top.ty])
       THEN /\ cells' = [cells EXCEPT ![Top.ty] =
                              Append(@, [val |-> InitVal, flag |-> Unused])]
            /\ stack' = SetTop([Top EXCEPT !.pc = "context"])
            /\ UNCHANGED <<thread, parked, stores, contexts, contextsBorrow,
                           entryBorrow, suspended, handles, newCount, failed,
                           panicked>>
       ELSE Panic("BorrowMutError")

\* let context = Context { store: Mrc::new(Rc::new(..)) };
\* *maybe_context.borrow_mut() = Some(context);
Store ==
    /\ Running /\ Top.op = "get_or_init" /\ Top.pc = "store"
    /\ IF CanBorrowMut(entryBorrow[Top.ty])
       THEN /\ cells' = [cells EXCEPT ![Top.ty] =
                              Append(@, [val |-> InitVal, flag |-> Unused])]
            /\ contexts' = [contexts EXCEPT ![Top.ty] = Len(cells[Top.ty]) + 1]
            /\ stack' = SetTop([Top EXCEPT !.pc = "context"])
            /\ UNCHANGED <<thread, parked, stores, contextsBorrow, entryBorrow, suspended, handles,
                           newCount, failed, panicked>>
       ELSE Panic("BorrowMutError")

\* GetContext as it would be if the Context were moved out of the entry
\* (take()) instead of cloned: the entry is left holding None.
GetContextTakes ==
    /\ Running /\ Top.op = "get_or_init" /\ Top.pc = "context"
    /\ IF ~CanBorrowMut(entryBorrow[Top.ty])
       THEN Panic("BorrowMutError")
       ELSE IF contexts[Top.ty] = None
       THEN Panic("Context not initialized")
       ELSE /\ stack' = SetTop([Top EXCEPT !.pc = "return",
                                           !.cell = contexts[Top.ty]])
            /\ contexts' = [contexts EXCEPT ![Top.ty] = None]
            /\ UNCHANGED <<thread, parked, stores, contextsBorrow, entryBorrow,
                           cells, suspended, handles, newCount, failed, panicked>>

\* maybe_context.borrow().clone().expect("Context not initialized")
GetContext ==
    /\ Running /\ Top.op = "get_or_init" /\ Top.pc = "context"
    /\ IF ~CanBorrow(entryBorrow[Top.ty])
       THEN Panic("BorrowError")
       ELSE IF contexts[Top.ty] = None
       THEN Panic("Context not initialized")
       ELSE /\ stack' = SetTop([Top EXCEPT !.pc = "return",
                                           !.cell = contexts[Top.ty]])
            /\ UNCHANGED <<thread, parked, stores, contexts, contextsBorrow, entryBorrow, cells,
                           suspended, handles, newCount, failed, panicked>>

\* get_or_init returns the Context to its caller.
ReturnContext ==
    /\ Running /\ Top.op = "get_or_init" /\ Top.pc = "return"
    /\ handles' = handles \cup {Handle(Top)}
    /\ stack' = Pop
    /\ UNCHANGED <<thread, parked, stores, contexts, contextsBorrow, entryBorrow, cells, suspended,
                   newCount, failed, panicked>>

GetOrInitStep ==
    \/ \E S \in Types : CallGetOrInit(S)
    \/ WithMut
    \/ Entry
    \/ Exists
    \/ \E Y \in Types : NewRequests(Y)
    \/ NewReturns
    \/ Store
    \/ GetContext
    \/ ReturnContext

(* ------------------- Context::reduce / reduce_future ------------------- *)

\* A task calls context.reduce(f) on a Context it got from get_or_init.
CallReduce(h, f) ==
    /\ Idle
    /\ h \in handles
    /\ stack' = Push(Frame("reduce", h[1], h[2], f))
    /\ UNCHANGED <<thread, parked, stores, contexts, contextsBorrow, entryBorrow, cells, suspended,
                   handles, newCount, failed, panicked>>

\* A task starts context.reduce_future(f) and polls it for the first time.  What
\* the future that f returns computes is settled when it completes (Ready).
CallReduceFuture(h) ==
    /\ Idle
    /\ h \in handles
    /\ stack' = Push(Frame("reduce_future", h[1], h[2], "pending"))
    /\ UNCHANGED <<thread, parked, stores, contexts, contextsBorrow, entryBorrow, cells, suspended,
                   handles, newCount, failed, panicked>>

InReduce == Running /\ Top.op \in {"reduce", "reduce_future"}

\* Old as it would be if the Ref of the first statement were kept in a local
\* and so stayed alive while f runs.
OldKeepsRef ==
    /\ InReduce /\ Top.pc = "old"
    /\ IF CanBorrow(CellOf(Top).flag)
       THEN /\ stack' = SetTop([Top EXCEPT !.pc = "f",
                                           !.old = CellOf(Top).val])
            /\ cells' = [cells EXCEPT ![Top.ty][Top.cell].flag = @ + 1]
            /\ UNCHANGED <<thread, parked, stores, contexts, contextsBorrow, entryBorrow,
                           suspended, handles, newCount, failed, panicked>>
       ELSE Panic("BorrowError")

\* let old = Rc::clone(&self.store.borrow());
\* The Ref is a temporary, dropped at the end of the statement.
Old ==
    /\ InReduce /\ Top.pc = "old"
    /\ IF CanBorrow(CellOf(Top).flag)
       THEN /\ stack' = SetTop([Top EXCEPT !.pc = "f",
                                           !.old = CellOf(Top).val])
            /\ UNCHANGED <<thread, parked, stores, contexts, contextsBorrow, entryBorrow, cells,
                           suspended, handles, newCount, failed, panicked>>
       ELSE Panic("BorrowError")

\* Inside f (or the future it returned): the transform reads the store again
\* through another Context of the same cell, and has the snapshot it read.
TransformReads ==
    /\ InReduce /\ Top.pc = "f"
    /\ IF CanBorrow(CellOf(Top).flag)
       THEN /\ stack' = SetTop([Top EXCEPT !.pc = "f_read",
                                           !.seen = CellOf(Top).val])
            /\ UNCHANGED <<thread, parked, stores, contexts, contextsBorrow, entryBorrow, cells,
                           suspended, handles, newCount, failed, panicked>>
       ELSE Panic("BorrowError")

\* The transform goes on after its read.
TransformContinues ==
    /\ InReduce /\ Top.pc = "f_read"
    /\ stack' = SetTop([Top EXCEPT !.pc = "f", !.seen = 0])
    /\ UNCHANGED <<thread, parked, stores, contexts, contextsBorrow, entryBorrow, cells,
                   suspended, handles, newCount, failed, panicked>>

\* reduce: f(Rc::clone(&old)) returns; the right-hand side of the assignment
\* has its value.
TransformReturns ==
    /\ Running /\ Top.op = "reduce" /\ Top.pc = "f"
    /\ stack' = SetTop([Top EXCEPT !.pc = "write"])
    /\ UNCHANGED <<thread, parked, stores, contexts, contextsBorrow, entryBorrow, cells, suspended,
                   handles, newCount, failed, panicked>>

\* reduce_future: f(Rc::clone(&old)).await is ready with the snapshot the
\* future computed from old, the future being the one transform f builds.
Ready(f) ==
    /\ Running /\ Top.op = "reduce_future" /\ Top.pc = "f"
    /\ stack' = SetTop([Top EXCEPT !.pc = "write", !.f = f])
    /\ UNCHANGED <<thread, parked, stores, contexts, contextsBorrow, entryBorrow, cells, suspended,
                   handles, newCount, failed, panicked>>

\* Suspend as it would be if reduce could yield to the executor too.
SuspendAnyReduce ==
    /\ InReduce /\ Top.pc = "f"
    /\ Depth = 1
    /\ BagCardinality(suspended) < MaxSuspended
    /\ suspended' = suspended (+) SetToBag({Top})
    /\ stack' = <<>>
    /\ UNCHANGED <<thread, parked, stores, contexts, contextsBorrow, entryBorrow, cells, handles,
                   newCount, failed, panicked>>

\* Suspend as it would be if borrow_mut() were taken before the future is
\* awaited, so that the RefMut lived across the .await.
SuspendHoldingRefMut ==
    /\ Running /\ Top.op = "reduce_future" /\ Top.pc = "f"
    /\ Depth = 1
    /\ BagCardinality(suspended) < MaxSuspended
    /\ suspended' = suspended (+) SetToBag({Top})
    /\ stack' = <<>>
    /\ cells' = [cells EXCEPT ![Top.ty][Top.cell].flag = Writing]
    /\ UNCHANGED <<thread, parked, stores, contexts, contextsBorrow, entryBorrow, handles,
                   newCount, failed, panicked>>

\* Suspend as it would be if the future published an intermediate value to the
\* cell before it yields.
SuspendTorn ==
    /\ Running /\ Top.op = "reduce_future" /\ Top.pc = "f"
    /\ Depth = 1
    /\ BagCardinality(suspended) < MaxSuspended
    /\ suspended' = suspended (+) SetToBag({Top})
    /\ stack' = <<>>
    /\ cells' = [cells EXCEPT ![Top.ty][Top.cell].val = Apply("inc", Top.old)]
    /\ UNCHANGED <<thread, parked, stores, contexts, contextsBorrow, entryBorrow,
                   handles, newCount, failed, panicked>>

\* f(..).await is pending: reduce_future returns Poll::Pending to the executor.
Suspend ==
    /\ Running /\ Top.op = "reduce_future" /\ Top.pc = "f"
    /\ Depth = 1
    /\ BagCardinality(suspended) < MaxSuspended
    /\ suspended' = suspended (+) SetToBag({Top})
    /\ stack' = <<>>
    /\ UNCHANGED <<thread, parked, stores, contexts, contextsBorrow, entryBorrow, cells, handles,
                   newCount, failed, panicked>>

\* The executor polls a suspended reduce_future again.
Resume(fr) ==
    /\ Idle
    /\ BagIn(fr, suspended)
    /\ stack' = <<fr>>
    /\ suspended' = suspended (-) SetToBag({fr})
    /\ UNCHANGED <<thread, parked, stores, contexts, contextsBorrow, entryBorrow, cells, handles,
                   newCount, failed, panicked>>

\* Write as it would be if the transform were applied to the snapshot that is
\* current at the time of the write instead of to old.
WriteFromCurrent ==
    /\ InReduce /\ Top.pc = "write"
    /\ IF CanBorrowMut(CellOf(Top).flag)
       THEN /\ cells' = [cells EXCEPT ![Top.ty][Top.cell].val =
                                              Apply(Top.f, CellOf(Top).val)]
            /\ stack' = SetTop([Top EXCEPT !.pc = "borrow",
                                           !.pre = CellOf(Top).val])
            /\ UNCHANGED <<thread, parked, stores, contexts, contextsBorrow, entryBorrow, suspended,
                           handles, newCount, failed, panicked>>
       ELSE Panic("BorrowMutError")

\* *self.store.borrow_mut() = <value>;  the RefMut is dropped with the statement.
Write ==
    /\ InReduce /\ Top.pc = "write"
    /\ IF CanBorrowMut(CellOf(Top).flag)
       THEN /\ cells' = [cells EXCEPT ![Top.ty][Top.cell].val =
                                              Apply(Top.f, Top.old)]
            /\ stack' = SetTop([Top EXCEPT !.pc = "borrow",
                                           !.pre = CellOf(Top).val])
            /\ UNCHANGED <<thread, parked, stores, contexts, contextsBorrow, entryBorrow, suspended,
                           handles, newCount, failed, panicked>>
       ELSE Panic("BorrowMutError")

\* self.store.borrow() of the last expression.
Borrow ==
    /\ InReduce /\ Top.pc = "borrow"
    /\ IF CanBorrow(CellOf(Top).flag)
       THEN /\ cells' = [cells EXCEPT ![Top.ty][Top.cell].flag = @ + 1]
            /\ stack' = SetTop([Top EXCEPT !.pc = "should_notify"])
            /\ UNCHANGED <<thread, parked, stores, contexts, contextsBorrow, entryBorrow, suspended,
                           handles, newCount, failed, panicked>>
       ELSE Panic("BorrowError")

\* Notify as it would be with receiver and argument exchanged:
\* old.should_notify(&*self.store.borrow()).
NotifySwapped ==
    /\ InReduce /\ Top.pc = "should_notify"
    /\ cells' = [cells EXCEPT ![Top.ty][Top.cell].flag = @ - 1]
    /\ stack' = SetTop([Top EXCEPT
                   !.pc = "return",
                   !.ret = ShouldNotify(Top.ty, Top.old, CellOf(Top).val)])
    /\ UNCHANGED <<thread, parked, stores, contexts, contextsBorrow, entryBorrow, suspended, handles,
                   newCount, failed, panicked>>

\* Notify as it would be if old were read after the write: the current
\* snapshot is compared with itself.
NotifyOldReadLate ==
    /\ InReduce /\ Top.pc = "should_notify"
    /\ cells' = [cells EXCEPT ![Top.ty][Top.cell].flag = @ - 1]
    /\ stack' = SetTop([Top EXCEPT
                   !.pc = "return",
                   !.ret = ShouldNotify(Top.ty, CellOf(Top).val, CellOf(Top).val)])
    /\ UNCHANGED <<thread, parked, stores, contexts, contextsBorrow, entryBorrow, suspended, handles,
                   newCount, failed, panicked>>

\* .should_notify(&old) on the borrowed current snapshot; the Ref is dropped.
Notify ==
    /\ InReduce /\ Top.pc = "should_notify"
    /\ cells' = [cells EXCEPT ![Top.ty][Top.cell].flag = @ - 1]
    /\ stack' = SetTop([Top EXCEPT
                   !.pc = "return",
                   !.ret = ShouldNotify(Top.ty, CellOf(Top).val, Top.old)])
    /\ UNCHANGED <<thread, parked, stores, contexts, contextsBorrow, entryBorrow, suspended, handles,
                   newCount, failed, panicked>>

\* reduce / reduce_future returns the boolean to its caller.
ReturnNotify ==
    /\ InReduce /\ Top.pc = "return"
    /\ stack' = Pop
    /\ UNCHANGED <<thread, parked, stores, contexts, contextsBorrow, entryBorrow, cells, suspended,
                   handles, newCount, failed, panicked>>

ReduceStep ==
    \/ \E h \in handles, f \in Transforms : CallReduce(h, f)
    \/ \E h \in handles : CallReduceFuture(h)
    \/ Old
    \/ TransformReads
    \/ TransformContinues
    \/ TransformReturns
    \/ \E f \in Transforms : Ready(f)
    \/ Suspend
    \/ \E fr \in BagToSet(suspended) : Resume(fr)
    \/ Write
    \/ Borrow
    \/ Notify
    \/ ReturnNotify

Next == GetOrInitStep \/ ReduceStep

(* ------------------------------ threads -------------------------------- *)

\* SwitchThread as it would be if CONTEXTS were a plain static shared by the
\* threads: the thread that comes in finds the registry and the cells as the
\* other thread left them.
SwitchSharedStatic ==
    /\ thread' = 3 - thread
    /\ parked' = Local
    /\ stack' = parked.stack
    /\ suspended' = parked.suspended
    /\ handles' = parked.handles
    /\ newCount' = parked.newCount
    /\ panicked' = parked.panicked
    /\ UNCHANGED <<stores, contexts, contextsBorrow, entryBorrow, cells, failed>>

\* The other thread runs.  thread_local! gives each thread its own CONTEXTS,
\* created empty on the thread's first get_or_init.
SwitchThread ==
    /\ thread' = 3 - thread
    /\ parked' = Local
    /\ contexts' = parked.contexts
    /\ contextsBorrow' = parked.contextsBorrow
    /\ entryBorrow' = parked.entryBorrow
    /\ cells' = parked.cells
    /\ stack' = parked.stack
    /\ suspended' = parked.suspended
    /\ handles' = parked.handles
    /\ newCount' = parked.newCount
    /\ panicked' = parked.panicked
    /\ UNCHANGED <<stores, failed>>

\* The synchronous reduce, without reads through an alias.
SyncReduceStep ==
    \/ \E h \in handles, f \in Transforms : CallReduce(h, f)
    \/ Old
    \/ TransformReturns
    \/ Write
    \/ Borrow
    \/ Notify
    \/ ReturnNotify

\* Two threads whose tasks call get_or_init and reduce.
NextThreads == GetOrInitStep \/ SyncReduceStep \/ SwitchThread

\* The calls that return: no store constructor fails.
Spec == Init /\ [][Next]_vars

\* The steps of the running call chain, as opposed to the calls that tasks and
\* the executor make when nothing runs.
RunStep ==
    \/ WithMut \/ Entry \/ Exists
    \/ \E Y \in Types : NewRequests(Y)
    \/ NewReturns \/ Store \/ GetContext \/ ReturnContext
    \/ Old \/ TransformReads \/ TransformContinues \/ TransformReturns
    \/ \E f \in Transforms : Ready(f)
    \/ Suspend \/ Write \/ Borrow \/ Notify \/ ReturnNotify

\* On a running thread the call chain that is underway takes its next step.
SpecLive == Spec /\ WF_vars(RunStep)

\* Tasks that call get_or_init and reduce; store constructors may fail.
NextFail == GetOrInitStep \/ SyncReduceStep \/ NewFails
SpecFail == Init /\ [][NextFail]_vars

\* Inside S::new(): the constructor reduces the store Y whose Context the
\* get_or_init::<Y>() it made has returned.
NewReduces(Y, f) ==
    /\ Running /\ Top.op = "get_or_init" /\ Top.pc = "new"
    /\ Y \in Top.done /\ contexts[Y] > None
    /\ Depth < MaxDepth
    /\ stack' = Push(Frame("reduce", Y, contexts[Y], f))
    /\ UNCHANGED <<thread, parked, stores, contexts, contextsBorrow, entryBorrow,
                   cells, suspended, handles, newCount, failed, panicked>>

\* Tasks that call get_or_init and reduce, and store constructors that reduce
\* the stores they request.
NextNew ==
    \/ GetOrInitStep
    \/ SyncReduceStep
    \/ \E Y \in Types, f \in Transforms : NewReduces(Y, f)

SpecNew == Init /\ [][NextNew]_vars

\* The test stores on two threads.
InitThreads == Init /\ stores = {"A", "B"}
SpecThreads == InitThreads /\ [][NextThreads]_vars

(* ---------------------------- properties ------------------------------- *)

\* The stores whose should_notify is `self != other`.
NotEqualStores ==
    {S \in Types : \A a, b \in Vals : ShouldNotify(S, a, b) = (a # b)}

AfterWrite == {"borrow", "should_notify", "return"}

AllUnborrowed ==
    /\ contextsBorrow = Unused
    /\ \A S \in Types : entryBorrow[S] = Unused
    /\ \A S \in Types : \A k \in DOMAIN cells[S] : cells[S][k].flag = Unused

\* C1 (as claimed): for every store type S, once the task's get_or_init::<S>()
\* calls have returned and S's entry is ready, S::new() has run exactly once.
C1_NewExactlyOnce ==
    \A S \in Types : (Idle /\ contexts[S] > None) => newCount[S] = 1

\* C2 (as claimed): a get_or_init::<S>() call nested inside an enclosing
\* get_or_init::<S>() call that is still running S::new() never enters S::new()
\* itself: the pending entry stops it.
C2_PendingPreventsReentry ==
    \A i, j \in 1..Depth :
        ( /\ i < j
          /\ stack[i].op = "get_or_init" /\ stack[j].op = "get_or_init"
          /\ stack[i].ty = stack[j].ty
          /\ stack[i].pc = "new" )
        => stack[j].pc \notin {"new", "store"}

\* With the test stores no call panics on a borrow or gets stuck, A::new() and
\* B::new() run at most once each, and once B's entry is ready so is A's and
\* each constructor has run exactly once.
C3_Safe ==
    stores = {"A", "B"} =>
        /\ panicked = "no"
        /\ (Running => ENABLED Next)
        /\ newCount["A"] <= 1 /\ newCount["B"] <= 1
        /\ (contexts["B"] > None =>
                /\ contexts["A"] > None
                /\ newCount["A"] = 1 /\ newCount["B"] = 1)

\* C3: with the test stores (B::new() calls get_or_init::<A>(), A::new() requests
\* nothing) every get_or_init::<B>() call returns, with the entries of A and B
\* ready, without a borrow panic and without getting stuck; A::new() and
\* B::new() run at most once each and exactly once by the time B is ready,
\* whichever of A and B was requested first and however often A is requested
\* afterwards.
C3_CrossStoreInit ==
    /\ []C3_Safe
    /\ (stores = {"A", "B"} /\ Depth > 0 /\ stack[1].op = "get_or_init"
                            /\ stack[1].ty = "B")
         ~> (Idle /\ contexts["B"] > None /\ contexts["A"] > None)

\* B::new() is running, the get_or_init::<A>() it made is about to return the
\* Context of the A it constructed, and no get_or_init call had returned before.
C3_Witness ==
    /\ stores = {"A", "B"} /\ panicked = "no" /\ Depth = 2
    /\ stack[1].ty = "B" /\ stack[1].pc = "new"
    /\ stack[2].ty = "A" /\ stack[2].pc = "return"
    /\ handles = {}
    /\ newCount["A"] = 1 /\ newCount["B"] = 1

\* C4 (as claimed): all Contexts that get_or_init::<S>() has returned refer to
\* the same cell.
C4_SameCell ==
    \A h1, h2 \in handles : h1[1] = h2[1] => h1[2] = h2[2]

\* C5 (as claimed): reduce(f) returns old.should_notify(&new).
C5_NotifyOldAgainstNew ==
    (Running /\ Top.op = "reduce" /\ Top.pc = "return") =>
        Top.ret = ShouldNotify(Top.ty, Top.old, CellOf(Top).val)

\* C5 (amended): reduce(f) returns new.should_notify(&old): should_notify is
\* invoked on the snapshot current after the write, new = f(old), with the
\* snapshot that was current before the call as its argument.
C5_NotifyNewAgainstOld ==
    (Running /\ Top.op = "reduce" /\ Top.pc = "return") =>
        /\ CellOf(Top).val = Apply(Top.f, Top.old)
        /\ Top.ret = ShouldNotify(Top.ty, CellOf(Top).val, Top.old)

\* A reduce returns on a store whose should_notify is not symmetric, with a
\* result that differs from old.should_notify(&new).
C5_Witness ==
    /\ Running /\ Top.op = "reduce" /\ Top.pc = "return"
    /\ Top.ret # ShouldNotify(Top.ty, Top.old, CellOf(Top).val)

\* C6: on a store whose should_notify is "not equal", reduce with the identity
\* transform returns false and leaves the snapshot as it was, and reduce with a
\* transform whose result differs from the current snapshot returns true and
\* makes that result the current snapshot.
C6_NotificationFidelity ==
    (Running /\ Top.op = "reduce" /\ Top.pc = "return"
             /\ Top.ty \in NotEqualStores) =>
        /\ Top.f = "id" =>
              /\ Top.ret = FALSE
              /\ CellOf(Top).val = Top.old /\ Top.pre = Top.old
        /\ Apply(Top.f, Top.old) # Top.old =>
              /\ Top.ret = TRUE
              /\ CellOf(Top).val = Apply(Top.f, Top.old)

\* An identity reduce returns false on a snapshot that an earlier reduction
\* had made different from the initial one.
C6_Witness ==
    /\ Running /\ Top.op = "reduce" /\ Top.pc = "return"
    /\ Top.ty \in NotEqualStores
    /\ Top.f = "id" /\ Top.old # InitVal /\ Top.ret = FALSE

\* C7: while the transform of a reduce runs, the cell holds the snapshot that
\* was current when reduce was called, which is the one f was given, and nobody
\* borrows the cell; a read through an alias from inside f succeeds and gets
\* that snapshot; the cell is not written before f has returned.
C7_SnapshotIsolation ==
    /\ panicked # "BorrowError"
    /\ (Running /\ Top.op = "reduce") =>
          /\ Top.pc \in {"f", "f_read"} => CellOf(Top).flag = Unused
          /\ Top.pc \in {"f", "f_read", "write"} => CellOf(Top).val = Top.old
          /\ Top.pc = "f_read" => Top.seen = Top.old

\* Inside a transform that will change the snapshot, a read through an alias
\* has just returned the snapshot the transform was given.
C7_Witness ==
    /\ Running /\ Top.op = "reduce" /\ Top.pc = "f_read"
    /\ Top.seen = Top.old /\ Top.old # InitVal
    /\ Apply(Top.f, Top.old) # Top.old

\* C8: a reduce overwrites the snapshot it read: from its read to its write no
\* other operation has changed the store, also when reduce_future calls on the
\* same store are suspended meanwhile.
C8_ReduceAtomic ==
    (Running /\ Top.op = "reduce") =>
        /\ Top.pc = "write" => CellOf(Top).val = Top.old
        /\ Top.pc \in AfterWrite => Top.pre = Top.old

\* A reduce has just replaced the snapshot it read by a different one while a
\* reduce_future on the same store is suspended.
C8_Witness ==
    /\ Running /\ Top.op = "reduce" /\ Top.pc = "borrow"
    /\ Top.pre = Top.old /\ CellOf(Top).val # Top.old
    /\ \E fr \in BagToSet(suspended) : Handle(fr) = Handle(Top)

\* C9: when a resumed reduce_future writes, the snapshot becomes f(old) for the
\* old it captured before it suspended, whatever was written meanwhile, and it
\* returns the should_notify comparison of f(old) with that old.
C9_LostUpdate ==
    (Running /\ Top.op = "reduce_future" /\ Top.pc \in AfterWrite) =>
        /\ CellOf(Top).val = Apply(Top.f, Top.old)
        /\ Top.pc = "return" =>
              Top.ret = ShouldNotify(Top.ty, Apply(Top.f, Top.old), Top.old)

\* A reduce_future returns after overwriting a snapshot written while it was
\* suspended, and its result differs from the comparison with that snapshot.
C9_Witness ==
    /\ Running /\ Top.op = "reduce_future" /\ Top.pc = "return"
    /\ Top.pre # Top.old
    /\ Top.ret # ShouldNotify(Top.ty, CellOf(Top).val, Top.pre)

\* C10: a suspended reduce_future holds no borrow of its cell, of the registry
\* map or of an entry, so whatever other tasks run meanwhile (get_or_init,
\* reduce, reduce_future, also on the same store) never panics on a borrow and
\* always has a next step up to its return; a reduce that runs meanwhile is
\* given the current snapshot and makes f of it the current snapshot.
C10_SuspendedHoldsNoBorrow ==
    /\ panicked = "no"
    /\ (Idle /\ suspended # EmptyBag) => AllUnborrowed
    /\ (Running /\ suspended # EmptyBag) =>
          /\ ENABLED Next
          /\ Top.op = "reduce" /\ Top.pc \in {"f", "f_read"} =>
                Top.old = CellOf(Top).val
          /\ Top.op = "reduce" /\ Top.pc \in AfterWrite =>
                CellOf(Top).val = Apply(Top.f, Top.old)

\* While a reduce_future on a store is suspended, a reduce on the same store
\* returns after changing the snapshot.
C10_Witness ==
    /\ Running /\ Top.op = "reduce" /\ Top.pc = "return"
    /\ CellOf(Top).val # Top.pre
    /\ \E fr \in BagToSet(suspended) : Handle(fr) = Handle(Top)


\* C11: a reduce_future that is suspended has not written the cell and has no
\* result yet; the snapshot of a cell changes only in the write step of a
\* reduction that is running, which makes it f(old) of that reduction.  So as
\* long as a reduce_future does not resume, its cell holds the snapshot from
\* before the call or one written whole by another reduction.
C11_NoWriteUntilResumed ==
    /\ [](\A fr \in BagToSet(suspended) : fr.pc = "f" /\ fr.f = "pending")
    /\ [][\A S \in Types : \A k \in DOMAIN cells[S] :
            /\ k \in DOMAIN cells'[S]
            /\ cells'[S][k].val # cells[S][k].val =>
                  /\ InReduce /\ Top.pc = "write" /\ Handle(Top) = <<S, k>>
                  /\ cells'[S][k].val = Apply(Top.f, Top.old)
                  /\ suspended' = suspended]_vars

\* A reduce_future is suspended, nothing runs, and its cell holds a snapshot
\* that another reduction wrote after the suspended one had read the cell.
C11_Witness ==
    /\ Idle
    /\ \E fr \in BagToSet(suspended) : cells[fr.ty][fr.cell].val # fr.old

\* C12 (as claimed): an entry that is present stays present, and an entry that
\* is ready keeps holding the same Context, over the same cell.
C12_EntriesNeverReplaced ==
    [][\A S \in Types :
          /\ contexts[S] # Absent => contexts'[S] # Absent
          /\ contexts[S] > None => contexts'[S] = contexts[S]]_vars


\* C13: each thread has its own registry.  The steps of the running thread
\* (get_or_init, reduce) leave the entries and snapshots of the other thread as
\* they are, and a thread that runs again finds its entries and snapshots as it
\* left them; an entry is ready on a thread only after S::new() has run on that
\* thread, so the first get_or_init::<S>() of a thread finds no ready entry and
\* calls S::new(), also when S is ready on the other thread.
C13_ThreadsIndependent ==
    /\ [](\A S \in Types :
            /\ contexts[S] > None => newCount[S] >= 1
            /\ parked.contexts[S] > None => parked.newCount[S] >= 1)
    /\ []((Running /\ Top.op = "get_or_init" /\ Top.pc = "exists"
                   /\ newCount[Top.ty] = 0) => contexts[Top.ty] = None)
    /\ [][thread' = thread => parked' = parked]_vars
    /\ [][thread' # thread =>
            /\ contexts' = parked.contexts /\ cells' = parked.cells
            /\ parked'.contexts = contexts /\ parked'.cells = cells]_vars

\* Thread 2 runs its first get_or_init::<A>() and is about to call A::new(),
\* while on thread 1 A is ready and has been reduced to a snapshot other than
\* the initial one.
C13_Witness ==
    /\ thread = 2
    /\ Running /\ Top.op = "get_or_init" /\ Top.ty = "A" /\ Top.pc = "new"
    /\ newCount["A"] = 1 /\ contexts["A"] = None
    /\ parked.contexts["A"] > None
    /\ parked.cells["A"][parked.contexts["A"]].val # InitVal


\* The frames of the get_or_init calls whose S::new() has started and has not
\* returned.
Constructing ==
    {i \in 1..Depth : stack[i].op = "get_or_init" /\ stack[i].pc = "new"}

\* C14: while S::new() runs inside get_or_init::<S>(), the enclosing call holds
\* no borrow of the map and none of S's entry: the map is mutably borrowed only
\* in the lookup-or-insert step of the call that is running, the entry only
\* within the is_some() check and within the store, so a get_or_init nested in
\* the constructor never panics on a borrow.
C14_NoBorrowAcrossNew ==
    /\ panicked \notin {"BorrowError", "BorrowMutError"}
    /\ contextsBorrow # Unused =>
          /\ contextsBorrow = Writing
          /\ Running /\ Top.op = "get_or_init" /\ Top.pc = "entry"
    /\ \A i \in Constructing : entryBorrow[stack[i].ty] = Unused
    /\ \A S \in Types : entryBorrow[S] = Unused

\* A get_or_init nested in a constructor holds the borrow of the map for its
\* lookup while the enclosing S::new() is running.
C14_Witness ==
    /\ Running /\ Depth >= 2 /\ Top.op = "get_or_init" /\ Top.pc = "entry"
    /\ contextsBorrow = Writing
    /\ Depth - 1 \in Constructing


\* The store types whose entry is in the map.
Present == {S \in Types : contexts[S] # Absent}

\* C15 (as claimed): no entry is inserted into the map while some S::new() has
\* started and not yet returned.
C15_NoInsertDuringNew ==
    [][Present' # Present => Constructing = {}]_vars

\* C15 (amended): the map changes only in the lookup-or-insert step of the
\* get_or_init call that is running, under that call's own borrow of the map,
\* and the change is the insertion of a pending entry for the requested type;
\* constructors of other types may be running at that time (the call is then
\* nested in them), the constructor of the inserted type is not, and none of
\* them holds a borrow of the map.
C15_MapMutatedInEntryOnly ==
    [][Present' # Present =>
          /\ Running /\ Top.op = "get_or_init" /\ Top.pc = "entry"
          /\ contextsBorrow = Writing /\ contextsBorrow' = Unused
          /\ Top.ty \notin Present
          /\ Present' = Present \cup {Top.ty}
          /\ contexts' = [contexts EXCEPT ![Top.ty] = None]
          /\ \A i \in Constructing : i < Depth /\ stack[i].ty # Top.ty]_vars

\* The entry of A has just been inserted, pending, by the get_or_init::<A>()
\* that B::new() made, while B::new() is running.
C15_Witness ==
    /\ Running /\ Depth = 2
    /\ stack[1].op = "get_or_init" /\ stack[1].ty = "B" /\ stack[1].pc = "new"
    /\ Top.op = "get_or_init" /\ Top.ty = "A" /\ Top.pc = "exists"
    /\ contexts["A"] = None /\ newCount["A"] = 0


\* C16: the expect("Context not initialized") of get_or_init never fires: when
\* a call comes to its final read of the entry the entry is ready, found ready
\* or made ready by this call, also after an earlier constructor failure; the
\* Context a call returns is the one in the entry, over a constructed cell.
C16_ContextInitialized ==
    /\ panicked # "Context not initialized"
    /\ (Running /\ Top.op = "get_or_init") =>
          /\ Top.pc = "context" => contexts[Top.ty] > None
          /\ Top.pc = "return" =>
                /\ Top.cell = contexts[Top.ty]
                /\ Top.cell \in DOMAIN cells[Top.ty]

\* A call that found the entry pending, left behind by a failed constructor,
\* and constructed the store itself comes to its final read of the entry.
C16_Witness ==
    /\ Running /\ Top.op = "get_or_init" /\ Top.pc = "context"
    /\ failed > 0 /\ newCount[Top.ty] = 2
    /\ contexts[Top.ty] = Len(cells[Top.ty])


\* The current snapshot of a store whose entry is ready.
Snapshot(S) == cells[S][contexts[S]].val

\* C17 (as claimed): a step of get_or_init leaves the current snapshot of every
\* ready store as it is, and a step of reduce or reduce_future on store S
\* leaves the registry entries and the cells of all other stores as they are.
C17_SnapshotChangesOnlyByReduce ==
    [][/\ (Running /\ Top.op = "get_or_init") =>
             \A S \in Types : contexts[S] > None => Snapshot(S)' = Snapshot(S)
       /\ InReduce =>
             /\ contexts' = contexts
             /\ \A S \in Types \ {Top.ty} : cells'[S] = cells[S]]_vars

\* A step of get_or_init never writes into a cell that exists, and a step of
\* reduce changes nothing but the one cell of its Context.
CellsChangeOnlyByReduce ==
    [][/\ (Running /\ Top.op = "get_or_init") =>
             \A S \in Types : \A k \in DOMAIN cells[S] :
                 k \in DOMAIN cells'[S] /\ cells'[S][k] = cells[S][k]
       /\ InReduce =>
             /\ contexts' = contexts
             /\ \A S \in Types : \A k \in DOMAIN cells[S] :
                    <<S, k>> # Handle(Top) =>
                        k \in DOMAIN cells'[S] /\ cells'[S][k] = cells[S][k]]_vars


\* The store types whose construction is underway: a get_or_init call for them
\* has passed its lookup and has not yet stored the store it constructs.
Underway ==
    {stack[i].ty : i \in {j \in 1..Depth :
                            /\ stack[j].op = "get_or_init"
                            /\ stack[j].pc \in {"exists", "new", "store"}}}

\* C18 (as claimed): an entry is pending only while construction of that store
\* is underway, and when no call is in progress every entry present is ready.
C18_PendingOnlyWhileUnderway ==
    /\ \A S \in Types : contexts[S] = None => S \in Underway
    /\ Depth = 0 => \A S \in Present : contexts[S] > None

\* The number of S::new() calls on the stack that have started and not stored.
Unstored(S) ==
    Cardinality({i \in 1..Depth : /\ stack[i].op = "get_or_init"
                                  /\ stack[i].ty = S
                                  /\ stack[i].pc \in {"new", "store"}})

\* C18 (amended): an entry is pending only while construction of that store is
\* underway or after a constructor failure has unwound a construction of that
\* store; as long as no constructor has failed, pending means underway, and
\* when no call is in progress every entry present is ready or is that of a
\* store whose construction a failure has unwound.
C18_PendingUnderwayOrFailed ==
    /\ \A S \in Types :
          contexts[S] = None =>
              \/ S \in Underway
              \/ failed > 0 /\ newCount[S] > Len(cells[S]) + Unstored(S)
    /\ failed = 0 => C18_PendingOnlyWhileUnderway

\* Nothing runs and the entry of a store is pending: its constructor failed.
C18_Witness ==
    /\ Idle /\ failed > 0
    /\ \E S \in Present : contexts[S] = None /\ newCount[S] = 1

\* C19 (as claimed): when S::new() fails inside get_or_init::<S>(), the call
\* chain is unwound to the caller, nothing is stored, S's entry stays present
\* and pending, and every entry and every cell is as it was; a later
\* get_or_init::<S>() that finds the entry pending calls S::new() again.
C19_FailureLeavesPending ==
    /\ [][failed' # failed =>
            /\ Running /\ Top.op = "get_or_init" /\ Top.pc = "new"
            /\ contexts[Top.ty] = None
            /\ stack' = <<>> /\ panicked' = "no"
            /\ contexts' = contexts /\ cells' = cells /\ handles' = handles]_vars
    /\ [][(failed > 0 /\ Depth = 1 /\ Running /\ Top.op = "get_or_init"
                     /\ Top.pc = "exists" /\ contexts[Top.ty] = None) =>
            /\ stack'[1].pc = "new"
            /\ newCount'[Top.ty] = newCount[Top.ty] + 1]_vars


\* The store types that S::new() requests, directly or through the
\* constructors of the stores it requests, in at most n steps.
RECURSIVE Reach(_, _)
Reach(S, n) ==
    IF n = 0 THEN {}
    ELSE Requests(S) \cup UNION {Reach(Y, n - 1) : Y \in Requests(S)}

Requested(S) == Reach(S, Cardinality(Types))

\* No store type of the program requests itself, directly or indirectly.
Acyclic(P) == \A S \in P : S \notin Requested(S)

\* With store types whose requests are acyclic: no call panics or gets stuck,
\* the calls nest no deeper than there are store types, and a call that
\* returns leaves the entry of its type and of every type that the constructor
\* of that type requests, directly or indirectly, ready.
C20_Safe ==
    Acyclic(stores) =>
        /\ panicked = "no"
        /\ Running => ENABLED Next
        /\ Depth <= Cardinality(stores)
        /\ (Running /\ Top.op = "get_or_init" /\ Top.pc = "return") =>
              \A Y \in {Top.ty} \cup Requested(Top.ty) : contexts[Y] > None

\* C20: if no store type requests itself through the constructors (and the
\* constructors' own bodies terminate), every get_or_init call returns, the
\* calls nest no deeper than there are store types, and on return the entries
\* of the requested type and of every type its constructor requested, directly
\* or indirectly, are ready.
C20_AcyclicTerminates ==
    /\ []C20_Safe
    /\ (Acyclic(stores) /\ Depth > 0 /\ stack[1].op = "get_or_init")
         ~> (Idle /\ handles # {} /\ \A S \in Types : contexts[S] # None)

\* The outermost call of a chain as deep as there are store types returns: B
\* was requested before A, and both are ready.
C20_Witness ==
    /\ Acyclic(stores) /\ Cardinality(stores) = 2
    /\ Running /\ Depth = 1 /\ Top.op = "get_or_init" /\ Top.pc = "return"
    /\ Requested(Top.ty) # {} /\ newCount[Top.ty] = 1
    /\ handles = {<<"A", 1>>}

====
